---- MODULE Spec2Model ----
(***************************************************************************)
(* Model of the backup library: the snapshot store of src/src/index.ts     *)
(* (create, fetch, list, remove, getBackupData), the restore pipeline      *)
(* (load of index.ts, clearGuild, loadCategory and loadChannel of          *)
(* src/unnamed/part_001) and the channel capture (fetchTextChannelData,    *)
(* fetchVoiceChannelData).                                                 *)
(*                                                                         *)
(* Four specifications share the variables: StoreSpec (the store's API),   *)
(* CaptureSpec (one create with any capture options and any failing        *)
(* step), LoadSpec (one load of a stored snapshot, every remote call       *)
(* resolving or rejecting) and ChannelSpec (the restore of one captured    *)
(* channel into servers of any features and premium tier).                 *)
(*                                                                         *)
(* Strings are sequences of one-character strings, so that includes(),     *)
(* split('.') and template concatenation are computed as JavaScript        *)
(* computes them.                                                          *)
(***************************************************************************)
EXTENDS Integers, Sequences, FiniteSets, TLC

\* ------------------------------------------------------------------ bounds

\* Number of create calls of one run (each advances the clock by one).
MaxCreates == 3

\* ----------------------------------------------------------------- strings

Digits == <<"0", "1", "2", "3", "4", "5", "6", "7", "8", "9">>

\* Number -> decimal string, as the template literal `${n}` does.
RECURSIVE NumToString(_)
NumToString(n) ==
    IF n < 10 THEN <<Digits[n + 1]>>
    ELSE NumToString(n \div 10) \o <<Digits[(n % 10) + 1]>>

\* String.prototype.includes
Includes(s, sub) ==
    \E i \in 0..(Len(s) - Len(sub)) : SubSeq(s, i + 1, i + Len(sub)) = sub

\* The positions of character c in s.
Positions(s, c) == {i \in 1..Len(s) : s[i] = c}

\* s.split(c)[0]: s up to the first c, or all of s without one
SplitFirst(s, c) ==
    IF Positions(s, c) = {} THEN s
    ELSE SubSeq(s, 1, (CHOOSE i \in Positions(s, c) : \A j \in Positions(s, c) : i <= j) - 1)

\* s.split(c).pop(): s after the last c, or all of s without one
SplitPop(s, c) ==
    IF Positions(s, c) = {} THEN s
    ELSE SubSeq(s, (CHOOSE i \in Positions(s, c) : \A j \in Positions(s, c) : i >= j) + 1,
                Len(s))

DotJson == <<".", "j", "s", "o", "n">>
Json == <<"j", "s", "o", "n">>

\* `${backupID}.json`: the name of the file of a snapshot in the directory
FileName(backupID) == backupID \o DotJson

\* ------------------------------------------------------------------ inputs

\* The value of an option the caller did not give: of a flag or an
\* enumeration (modelled as strings: "true", "false", ...), and of a string
\* (strings are sequences of characters, which this one is not).
Undefined == "undefined"
UndefinedStr == <<"undefined">>

\* Owner scopes (clientID) of the callers.
ClientIDs == {<<"A">>, <<"B">>}

\* Caller-supplied backup ids (options.backupID).
BackupIDs == {<<"A", ".", "B">>}

\* Ids a caller may ask for: the supplied ones and generated ones.
AskedIDs == BackupIDs \cup {<<"1", "A">>, <<"1", "B">>}

\* A permission overwrite of the role "mod", as fetchChannelPermissions
\* records it (allow and deny are decimal strings).
ModPermission == [roleName |-> "mod", allow |-> <<"1">>, deny |-> <<"0">>]

\* The server being captured (the Guild handle given to create): one role,
\* one category and one text channel with one thread, both with an overwrite
\* for the role.
SourceGuild ==
    [id |-> "g1", name |-> "source",
     roles |-> <<[name |-> "mod"]>>,
     categories |-> <<[name |-> "cat", permissions |-> <<ModPermission>>]>>,
     others |-> <<[type |-> "GUILD_TEXT", name |-> "general", nsfw |-> FALSE,
                   rateLimitPerUser |-> 0, topic |-> Undefined, isNews |-> FALSE,
                   parent |-> "cat",
                   permissions |-> <<ModPermission>>,
                   threads |-> <<[name |-> "t1", autoArchiveDuration |-> 1440]>>]>>,
     emojis |-> <<[name |-> "smile"]>>,
     bans |-> << >>,
     afkChannel |-> Undefined,
     widgetChannel |-> Undefined]

\* The server being restored (the Guild handle given to load): its default
\* role (whose id is the server's), a deletable role, a managed role, a
\* channel, a webhook and a ban.
TargetGuild ==
    [id |-> "g2",
     roles |-> {[id |-> "g2", name |-> "@everyone", managed |-> FALSE, editable |-> FALSE],
                [id |-> "r1", name |-> "old", managed |-> FALSE, editable |-> TRUE],
                [id |-> "r2", name |-> "bot", managed |-> TRUE, editable |-> FALSE]},
     channels |-> {"lobby"},
     emojis |-> {},
     webhooks |-> {"hook"},
     bans |-> {"u9"},
     features |-> {},
     premiumTier |-> "NONE"]

\* The server captured with every category populated: SourceGuild with a
\* ban, a member and an icon.
CapturedGuild ==
    [members |-> <<[userId |-> "u1"]>>, iconURL |-> "icon.png"]
    @@ [SourceGuild EXCEPT !.bans = <<[id |-> "u7"]>>]

\* The categories doNotBackup can exclude.
Categories == {"bans", "roles", "emojis", "channels"}

\* The capture options create is called with: every exclusion set, with or
\* without the members, with or without the images.
CaptureInputs ==
    [doNotBackup : SUBSET Categories, backupMembers : {"true", "false"},
     saveImages : {"base64", ""}]

\* The threads of a text-like channel of the source server.
SourceThreads ==
    <<[name |-> "t1", autoArchiveDuration |-> 1440],
      [name |-> "t2", autoArchiveDuration |-> 60]>>

\* The bitrates of the voice channels of the source server.
Bitrates == {64000, 128000, 300000, 400000}

\* The channels restored one at a time: a text channel and an announcement
\* channel, each with two threads, and a voice channel of each bitrate.
SourceChannels ==
    {[type |-> "GUILD_TEXT", name |-> "general", nsfw |-> FALSE, rateLimitPerUser |-> 5,
      topic |-> "rules", parent |-> Undefined, permissions |-> << >>,
      threads |-> SourceThreads],
     [type |-> "GUILD_NEWS", name |-> "news", nsfw |-> TRUE, rateLimitPerUser |-> 0,
      topic |-> "releases", parent |-> Undefined, permissions |-> << >>,
      threads |-> SourceThreads]}
    \cup {[type |-> "GUILD_VOICE", name |-> "voice", bitrate |-> b, userLimit |-> 0,
           parent |-> Undefined, permissions |-> << >>] : b \in Bitrates}

\* The features and premium tiers of the servers restored into.
TargetTraitsSet ==
    [features : {{}, {"NEWS"}}, premiumTier : {"NONE", "TIER_1", "TIER_2", "TIER_3"}]

VARIABLES
    files,          \* the backups directory: file name -> file content
    requireCache,   \* Node's module cache: file name -> parsed document
    now,            \* Date.now()
    ret,            \* the outcome of the last call of the public API
    loadPc,         \* where load is: idle, webhooks, bans, restoring, resolved, rejected
    loadArgs,       \* the arguments load was called with
    loadErr,        \* what load rejected with
    clearStatus,    \* the promise of clearGuild: none, pending, resolved, rejected
    opStatus,       \* the promise of each restore operation of load's Promise.all
    inflight,       \* the remote calls issued and not settled
    failed,         \* the kinds of the remote calls that have rejected
    guildRoles,     \* guild.roles.cache of the target server
    target,         \* guild.features and guild.premiumTier of the target server
    attempted,      \* the deletions clearGuild has issued
    created,        \* the channels created by the restore: name -> what was set
    chanDone        \* the categories and channels whose promise has resolved

storeVars == <<files, requireCache, now, ret>>

loadVars == <<loadPc, loadArgs, loadErr, clearStatus, opStatus, inflight, failed,
              guildRoles, target, attempted, created, chanDone>>

vars == <<files, requireCache, now, ret, loadPc, loadArgs, loadErr, clearStatus,
          opStatus, inflight, failed, guildRoles, target, attempted, created, chanDone>>

\* --------------------------------------------------------------- the store

\* JSON.stringify(backupData, null, 4) or JSON.stringify(backupData)
Stringify(backupData, jsonBeautify) ==
    [indent |-> IF jsonBeautify = "true" THEN 4 ELSE 0, json |-> backupData]

\* JSON.parse, as require() of a .json file does
Parse(content) == content.json

\* readdir(backups)
Readdir == DOMAIN files

\* require(`${backups}${sep}${file}`): the module cache answers first; a file
\* read from the disk is parsed and cached.  Only called on a path for which
\* RequireOk holds.
RequireOk(f) == f \in DOMAIN requireCache \/ f \in DOMAIN files
Require(f) == IF f \in DOMAIN requireCache THEN requireCache[f] ELSE Parse(files[f])
CacheAfterRequire(f) ==
    IF f \in DOMAIN requireCache THEN requireCache
    ELSE [g \in DOMAIN requireCache \cup {f} |->
            IF g = f THEN Parse(files[f]) ELSE requireCache[g]]

\* list(clientID): the ids of the directory's files, as the code computes
\* them (the part of the file name before its first '.').
List(clientID) ==
    {SplitFirst(e, ".") : e \in {f \in Readdir : Includes(SplitFirst(f, "."), clientID)}}

\* The number of entries list(clientID) returns (an array: one entry per file).
ListLength(clientID) ==
    Cardinality({f \in Readdir : Includes(SplitFirst(f, "."), clientID)})

\* getBackupData without its owner check (a mutation of FindBackupFile).
FindBackupFileNoOwner(clientID, backupID) ==
    {f \in Readdir : /\ SplitPop(f, ".") = Json
                     /\ f = FileName(backupID)}

\* getBackupData: the file it finds, or none
FindBackupFile(clientID, backupID) ==
    {f \in Readdir : /\ SplitPop(f, ".") = Json
                     /\ Includes(backupID, clientID)
                     /\ f = FileName(backupID)}

GetBackupDataFound(clientID, backupID) == FindBackupFile(clientID, backupID) # {}

GetBackupDataFile(clientID, backupID) ==
    CHOOSE f \in FindBackupFile(clientID, backupID) : TRUE

GetBackupDataValue(clientID, backupID) ==
    Require(GetBackupDataFile(clientID, backupID))

\* The capture functions of create (createMaster.getBans, getRoles, getEmojis,
\* getChannels, getMembers): each returns the collection of the server.
GetBans(guild) == guild.bans
GetRoles(guild) == guild.roles
GetEmojis(guild) == guild.emojis
GetChannels(guild) == [categories |-> guild.categories, others |-> guild.others]
GetMembers(guild) == guild.members

\* fetchVoiceChannelData: the record of a voice channel.
FetchVoiceChannelData(channel) ==
    [type |-> "GUILD_STAGE_VOICE",
     name |-> channel.name,
     bitrate |-> channel.bitrate,
     userLimit |-> channel.userLimit,
     parent |-> channel.parent,
     permissions |-> channel.permissions]

\* fetchTextChannelData: the record of a text or announcement channel, with
\* a record for each of its threads.
FetchTextChannelData(channel) ==
    [type |-> channel.type,
     name |-> channel.name,
     nsfw |-> channel.nsfw,
     rateLimitPerUser |-> IF channel.type = "GUILD_TEXT"
                          THEN channel.rateLimitPerUser ELSE Undefined,
     parent |-> channel.parent,
     topic |-> channel.topic,
     permissions |-> channel.permissions,
     isNews |-> channel.type = "GUILD_NEWS",
     threads |-> [i \in DOMAIN channel.threads |->
                    [name |-> channel.threads[i].name,
                     autoArchiveDuration |-> channel.threads[i].autoArchiveDuration]]]

\* getChannels on one channel: a text or announcement channel is captured by
\* fetchTextChannelData, a voice channel by fetchVoiceChannelData.
CaptureChannel(channel) ==
    IF channel.type \in {"GUILD_TEXT", "GUILD_NEWS"}
    THEN FetchTextChannelData(channel) ELSE FetchVoiceChannelData(channel)

\* A server whose only content is one channel, as create sees it.
ChannelGuild(channel) ==
    [SourceGuild EXCEPT !.roles = << >>, !.categories = << >>, !.emojis = << >>,
                        !.others = <<CaptureChannel(channel)>>]

\* The id create gives the snapshot: options.backupID, or the number of
\* snapshots list(clientID) returns plus one, followed by clientID.
NewBackupID(backupID, clientID) ==
    IF backupID # UndefinedStr THEN backupID
    ELSE NumToString(ListLength(clientID) + 1) \o clientID

\* The capture steps of create, in the order the code runs them: the fetch
\* of the images, then the capture of the members, the bans, the roles, the
\* emojis and the channels.
CaptureSteps == <<"assets", "members", "bans", "roles", "emojis", "channels">>

StepIndex(step) == CHOOSE i \in DOMAIN CaptureSteps : CaptureSteps[i] = step

\* The options of create that StoreSpec leaves at their defaults.
DefaultCapture == [doNotBackup |-> {}, backupMembers |-> "false", saveImages |-> ""]

\* The doNotBackup test of create, were it missing (a mutation of
\* DoNotBackupIncludes).
DoNotBackupIgnored(doNotBackup, step) == FALSE

\* (options.doNotBackup || []).includes(step)
DoNotBackupIncludes(doNotBackup, step) == step \in doNotBackup

\* Whether create runs a capture step: the images are fetched for a server
\* with an icon when saveImages is 'base64', the members are captured when
\* backupMembers is set, and a category is captured unless doNotBackup
\* includes it.
Attempts(step, guild, capture) ==
    CASE step = "assets" -> "iconURL" \in DOMAIN guild /\ capture.saveImages = "base64"
      [] step = "members" -> capture.backupMembers = "true"
      [] OTHER -> ~DoNotBackupIncludes(capture.doNotBackup, step)

\* Whether the step named throwAt is run and throws ("none": nothing throws).
Thrown(guild, capture, throwAt) ==
    throwAt # "none" /\ Attempts(throwAt, guild, capture)

\* The capture steps create has called when it settles: every step it runs,
\* up to the one that throws.
CalledSteps(guild, capture, throwAt) ==
    {CaptureSteps[i] : i \in {j \in DOMAIN CaptureSteps :
        /\ Attempts(CaptureSteps[j], guild, capture)
        /\ Thrown(guild, capture, throwAt) => j <= StepIndex(throwAt)}}

\* The capture steps that have returned: the called ones but the throwing one.
CapturedSteps(guild, capture, throwAt) ==
    CalledSteps(guild, capture, throwAt)
        \ (IF Thrown(guild, capture, throwAt) THEN {throwAt} ELSE {})

\* backupData of create once the steps in `captured` have returned: a
\* category is the empty collection it was initialised with until its
\* capture function has returned.
BackupDataWith(guild, captured, id) ==
    [name |-> guild.name,
     afk |-> IF guild.afkChannel # Undefined THEN guild.afkChannel ELSE Undefined,
     widget |-> [channel |-> IF guild.widgetChannel # Undefined
                             THEN guild.widgetChannel ELSE Undefined],
     channels |-> IF "channels" \in captured THEN GetChannels(guild)
                  ELSE [categories |-> <<>>, others |-> <<>>],
     roles |-> IF "roles" \in captured THEN GetRoles(guild) ELSE <<>>,
     bans |-> IF "bans" \in captured THEN GetBans(guild) ELSE <<>>,
     emojis |-> IF "emojis" \in captured THEN GetEmojis(guild) ELSE <<>>,
     members |-> IF "members" \in captured THEN GetMembers(guild) ELSE <<>>,
     createdTimestamp |-> now,
     guildID |-> guild.id,
     id |-> id]
    @@ (IF "iconURL" \in DOMAIN guild
        THEN [iconURL |-> guild.iconURL,
              iconBase64 |-> IF "assets" \in captured THEN "base64" ELSE Undefined]
        ELSE << >>)

\* The document create assembles when nothing throws and members and images
\* are not asked for.
BackupDataOf(guild, doNotBackup, id) ==
    BackupDataWith(guild,
                   CapturedSteps(guild, [DefaultCapture EXCEPT !.doNotBackup = doNotBackup],
                                 "none"),
                   id)

\* writeFile(path, content): creates the file or replaces its content
WriteFile(f, content) ==
    [g \in DOMAIN files \cup {f} |-> IF g = f THEN content ELSE files[g]]

\* unlinkSync(path) of an existing file
Unlink(f) == [g \in DOMAIN files \ {f} |-> files[g]]

\* create writing the file although a capture step threw (a mutation of
\* CreateSaves).
CreateSavesAnyway(jsonSave, thrown) == jsonSave = Undefined \/ jsonSave = "true"

\* Whether create writes the file: it reaches writeFile when no capture step
\* threw, and writes unless jsonSave is false.
CreateSaves(jsonSave, thrown) ==
    ~thrown /\ (jsonSave = Undefined \/ jsonSave = "true")

\* create(guild, options): assigns the id, runs the capture steps, then
\* unless jsonSave is false writes the document under its id and resolves
\* with it; what a step throws is caught and rejects create.
CreateWith(guild, clientID, backupID, jsonSave, jsonBeautify, capture, throwAt) ==
    /\ LET thrown == Thrown(guild, capture, throwAt)
           backupData ==
               BackupDataWith(guild, CapturedSteps(guild, capture, throwAt),
                              NewBackupID(backupID, clientID))
       IN /\ files' = IF CreateSaves(jsonSave, thrown)
                      THEN WriteFile(FileName(backupData.id),
                                     Stringify(backupData, jsonBeautify))
                      ELSE files
          /\ ret' = [op |-> "create", clientID |-> clientID, backupID |-> backupID,
                     status |-> IF thrown THEN "rejected" ELSE "resolved",
                     value |-> IF thrown THEN throwAt ELSE backupData,
                     saved |-> CreateSaves(jsonSave, thrown),
                     doNotBackup |-> capture.doNotBackup,
                     called |-> CalledSteps(guild, capture, throwAt),
                     thrown |-> IF thrown THEN throwAt ELSE "none"]
    /\ now' = now + 1
    /\ UNCHANGED <<requireCache, loadVars>>

\* create of SourceGuild with the capture options at their defaults.
Create(clientID, backupID, jsonSave, jsonBeautify) ==
    /\ now < MaxCreates
    /\ CreateWith(SourceGuild, clientID, backupID, jsonSave, jsonBeautify,
                  DefaultCapture, "none")

\* fetch(clientID, backupID): getBackupData, then the informations of the
\* snapshot (the size of the file is left out of the value).
Fetch(clientID, backupID) ==
    /\ IF GetBackupDataFound(clientID, backupID)
       THEN /\ ret' = [op |-> "fetch", clientID |-> clientID, backupID |-> backupID,
                       status |-> "resolved",
                       value |-> [data |-> GetBackupDataValue(clientID, backupID),
                                  id |-> backupID]]
            /\ requireCache' = CacheAfterRequire(GetBackupDataFile(clientID, backupID))
       ELSE /\ ret' = [op |-> "fetch", clientID |-> clientID, backupID |-> backupID,
                       status |-> "rejected", value |-> "No backup found"]
            /\ UNCHANGED requireCache
    /\ UNCHANGED <<files, now, loadVars>>

\* remove without its owner check (a mutation of RemoveOwnerCheck).
RemoveNoOwnerCheck(clientID, backupID) == TRUE

\* Whether remove passes its owner check (backupID.includes(clientID)).
RemoveOwnerCheck(clientID, backupID) == Includes(backupID, clientID)

\* remove(clientID, backupID): the owner check, require() of the file, then
\* unlinkSync(); anything thrown rejects with 'Backup not found'.
Remove(clientID, backupID) ==
    LET f == FileName(backupID)
        required == RemoveOwnerCheck(clientID, backupID) /\ RequireOk(f)
        unlinked == required /\ f \in DOMAIN files
    IN /\ requireCache' = IF required THEN CacheAfterRequire(f) ELSE requireCache
       /\ files' = IF unlinked THEN Unlink(f) ELSE files
       /\ ret' = [op |-> "remove", clientID |-> clientID, backupID |-> backupID,
                  status |-> IF unlinked THEN "resolved" ELSE "rejected",
                  value |-> IF unlinked THEN Undefined ELSE "Backup not found"]
       /\ UNCHANGED <<now, loadVars>>

\* list(clientID)
ListCall(clientID) ==
    /\ ret' = [op |-> "list", clientID |-> clientID, backupID |-> UndefinedStr,
               status |-> "resolved", value |-> List(clientID)]
    /\ UNCHANGED <<files, requireCache, now, loadVars>>

\* ------------------------------------------------------------ remote calls

\* A remote call in flight: its kind, what it acts on, and for a thread the
\* thread's name.
Call(kind, arg, sub) == [kind |-> kind, arg |-> arg, sub |-> sub]

\* The deletions of clearGuild.
DeletionKinds == {"role.delete", "channel.delete", "emoji.delete", "webhook.delete", "unban"}

\* Every remote call of clearGuild.
ClearKinds == DeletionKinds \cup {"fetchWebhooks", "bans.fetch", "reset", "reset.caught"}

\* The remote calls of the restore operations.
SimpleKinds == {"config", "roles.create", "afk", "emojis.create", "bans.create", "embed"}
ChannelKinds == {"channels.create", "permissionOverwrites.set", "threads.create"}
RestoreKinds == SimpleKinds \cup ChannelKinds

RestoreOps == {"loadConfig", "loadRoles", "loadChannels", "loadAFK", "loadEmojis",
               "loadBans", "loadEmbedChannel"}

SeqToSet(q) == {q[i] : i \in DOMAIN q}

\* ---------------------------------------------------------------- clearGuild

\* The roles clearGuild deletes.
ClearRoleFilter(role, guildId) == ~role.managed /\ role.editable /\ role.id # guildId

\* The calls clearGuild issues before it awaits the webhook listing: the
\* deletion of the roles, the channels and the emojis, and the listing.
ClearGuildFirstCalls ==
    {Call("role.delete", r.name, "") :
        r \in {x \in guildRoles : ClearRoleFilter(x, TargetGuild.id)}}
    \cup {Call("channel.delete", c, "") : c \in TargetGuild.channels}
    \cup {Call("emoji.delete", e, "") : e \in TargetGuild.emojis}
    \cup {Call("fetchWebhooks", "", "")}

\* The settings resets of clearGuild: whether a .catch() follows the call, and
\* whether the call is skipped for a COMMUNITY server.
ResetCalls ==
    {[name |-> "setAFKChannel", caught |-> FALSE, community |-> FALSE],
     [name |-> "setAFKTimeout", caught |-> FALSE, community |-> FALSE],
     [name |-> "setIcon", caught |-> FALSE, community |-> FALSE],
     [name |-> "setBanner", caught |-> TRUE, community |-> FALSE],
     [name |-> "setSplash", caught |-> TRUE, community |-> FALSE],
     [name |-> "setDefaultMessageNotifications", caught |-> FALSE, community |-> FALSE],
     [name |-> "setWidgetSettings", caught |-> FALSE, community |-> FALSE],
     [name |-> "setExplicitContentFilter", caught |-> FALSE, community |-> TRUE],
     [name |-> "setVerificationLevel", caught |-> FALSE, community |-> TRUE],
     [name |-> "setSystemChannel", caught |-> FALSE, community |-> FALSE],
     [name |-> "setSystemChannelFlags", caught |-> FALSE, community |-> FALSE]}

\* The resets clearGuild issues.
IssuedResets(features) ==
    {c \in ResetCalls : ~(c.community /\ "COMMUNITY" \in features)}

\* ------------------------------------------------- the restore operations

\* The calls each restore operation issues when load calls it.
LoadConfigCalls(data) == {Call("config", "", "")}
LoadRolesCalls(data) == {Call("roles.create", r.name, "") : r \in SeqToSet(data.roles)}
LoadAFKCalls(data) == IF data.afk # Undefined THEN {Call("afk", "", "")} ELSE {}
LoadEmojisCalls(data) == {Call("emojis.create", e.name, "") : e \in SeqToSet(data.emojis)}
LoadBansCalls(data) == {Call("bans.create", b.id, "") : b \in SeqToSet(data.bans)}
LoadEmbedChannelCalls(data) ==
    IF data.widget.channel # Undefined THEN {Call("embed", "", "")} ELSE {}

\* The categories and the other channels of a snapshot, by name.
CategoryNames(data) == {c.name : c \in SeqToSet(data.channels.categories)}
OtherNames(data) == {c.name : c \in SeqToSet(data.channels.others)}
ChannelData(data, name) ==
    CHOOSE c \in SeqToSet(data.channels.categories) \cup SeqToSet(data.channels.others) :
        c.name = name

\* loadChannels: every category first, then the other channels one after the
\* other in capture order.  The calls it issues once the categories and
\* channels in `done` have resolved (none when a creation is still pending).
LoadChannelsNextCalls(data, done) ==
    IF ~(CategoryNames(data) \subseteq done) THEN {}
    ELSE LET left == {i \in DOMAIN data.channels.others :
                         data.channels.others[i].name \notin done}
         IN IF left = {} THEN {}
            ELSE LET i == CHOOSE k \in left : \A j \in left : k <= j
                 IN {Call("channels.create", data.channels.others[i].name, "")}

LoadChannelsFirstCalls(data) ==
    IF data.channels.categories # << >>
    THEN {Call("channels.create", c, "") : c \in CategoryNames(data)}
    ELSE LoadChannelsNextCalls(data, {})

LoadChannelsResolved(data, done) == CategoryNames(data) \cup OtherNames(data) \subseteq done

\* The operation a call of a simple restore operation belongs to.
OpOf(kind) ==
    CASE kind = "config" -> "loadConfig"
      [] kind = "roles.create" -> "loadRoles"
      [] kind = "afk" -> "loadAFK"
      [] kind = "emojis.create" -> "loadEmojis"
      [] kind = "bans.create" -> "loadBans"
      [] kind = "embed" -> "loadEmbedChannel"
      [] OTHER -> "loadChannels"

FirstCalls(op, data) ==
    CASE op = "loadConfig" -> LoadConfigCalls(data)
      [] op = "loadRoles" -> LoadRolesCalls(data)
      [] op = "loadChannels" -> LoadChannelsFirstCalls(data)
      [] op = "loadAFK" -> LoadAFKCalls(data)
      [] op = "loadEmojis" -> LoadEmojisCalls(data)
      [] op = "loadBans" -> LoadBansCalls(data)
      [] op = "loadEmbedChannel" -> LoadEmbedChannelCalls(data)

\* load's Promise.all: the seven restore operations are called one after the
\* other in the same turn, each issuing its first calls.
RestoreFirstCalls(data) == UNION {FirstCalls(op, data) : op \in RestoreOps}

RestoreFirstStatus(data) ==
    [op \in RestoreOps |->
        IF op = "loadChannels"
        THEN (IF LoadChannelsResolved(data, {}) THEN "resolved" ELSE "pending")
        ELSE (IF FirstCalls(op, data) = {} THEN "resolved" ELSE "pending")]

\* --------------------------------------------- loadCategory and loadChannel

MaxBitratePerTier ==
    [NONE |-> 64000, TIER_1 |-> 128000, TIER_2 |-> 256000, TIER_3 |-> 384000]

\* The bitrate loadChannel asks for: lowered to the tier's maximum.
DowngradeBitrate(bitrate, premiumTier) ==
    IF bitrate > MaxBitratePerTier[premiumTier]
    THEN MaxBitratePerTier[premiumTier] ELSE bitrate

\* The type of a text-like channel, were the server's features not looked at
\* (a mutation of TextTypeOf).
TextTypeOfAnyServer(channelData, guild) ==
    IF channelData.isNews THEN "GUILD_NEWS" ELSE "GUILD_TEXT"

\* The type loadChannel creates a text-like channel with: an announcement
\* channel only in a server that has the NEWS feature.
TextTypeOf(channelData, guild) ==
    IF channelData.isNews /\ "NEWS" \in guild.features
    THEN "GUILD_NEWS" ELSE "GUILD_TEXT"

\* The options loadChannel creates the channel with (a field the code does not
\* set is Undefined).
CreateOptionsOf(channelData, guild, category) ==
    IF channelData.type = "GUILD_TEXT" \/ channelData.type = "GUILD_NEWS"
    THEN [parent |-> category, topic |-> channelData.topic, nsfw |-> channelData.nsfw,
          rateLimitPerUser |-> channelData.rateLimitPerUser,
          type |-> TextTypeOf(channelData, guild)]
    ELSE IF channelData.type = "GUILD_VOICE"
    THEN [parent |-> category,
          bitrate |-> DowngradeBitrate(channelData.bitrate, guild.premiumTier),
          userLimit |-> channelData.userLimit, type |-> "GUILD_VOICE"]
    ELSE [parent |-> category, type |-> Undefined]

\* BigInt(perm.allow): the number a decimal string denotes
RECURSIVE BigInt(_)
BigInt(str) ==
    IF str = << >> THEN 0
    ELSE 10 * BigInt(SubSeq(str, 1, Len(str) - 1))
         + (CHOOSE d \in 0..9 : Digits[d + 1] = str[Len(str)])

\* finalPermissions of loadCategory and loadChannel: an overwrite for each
\* permission record whose roleName is the name of a role of the cache.
FinalPermissions(permissions, roles) ==
    {[id |-> (CHOOSE r \in roles : r.name = perm.roleName).id,
      allow |-> BigInt(perm.allow), deny |-> BigInt(perm.deny)] :
        perm \in {q \in SeqToSet(permissions) : \E r \in roles : r.name = q.roleName}}

\* The role guild.roles.create adds to the cache (the id the server gives it
\* is modelled as its name; the names of a snapshot's roles differ).
NewRole(name) == [id |-> name, name |-> name, managed |-> FALSE, editable |-> TRUE]

\* --------------------------------------------------------------------- load

\* What load rejects with when a remote call rejected, were the inner
\* try/catch missing (a mutation of LoadRejectReason).
LoadRejectReasonOuter(e) == "No backup found"

\* What load rejects with when clearGuild or the Promise.all rejected with e
\* (the inner catch).
LoadRejectReason(e) == e

\* The arguments load is called with: the target server handle (given or
\* null), the backup (an id, or the document itself), the owner scope and
\* options.clearGuildBeforeRestore.
LoadInputs ==
    {[guild |-> "null", byId |-> TRUE, backup |-> <<"1", "A">>, clientID |-> <<"A">>,
      clear |-> Undefined],
     [guild |-> "null", byId |-> FALSE, backup |-> <<"1", "A">>, clientID |-> <<"A">>,
      clear |-> "true"],
     [guild |-> "given", byId |-> TRUE, backup |-> <<"1", "A">>, clientID |-> <<"A">>,
      clear |-> Undefined],
     [guild |-> "given", byId |-> TRUE, backup |-> <<"1", "A">>, clientID |-> <<"B">>,
      clear |-> "true"],
     [guild |-> "given", byId |-> TRUE, backup |-> <<"2", "A">>, clientID |-> <<"A">>,
      clear |-> "true"],
     [guild |-> "given", byId |-> FALSE, backup |-> <<"1", "A">>, clientID |-> <<"A">>,
      clear |-> "true"],
     [guild |-> "given", byId |-> FALSE, backup |-> <<"1", "A">>, clientID |-> <<"A">>,
      clear |-> "false"],
     [guild |-> "given", byId |-> TRUE, backup |-> <<"1", "A">>, clientID |-> <<"A">>,
      clear |-> "false"]}

NoLoadArgs == [guild |-> "null", byId |-> FALSE, backup |-> UndefinedStr,
               clientID |-> UndefinedStr, clear |-> Undefined]

\* How load begins: "Invalid guild" without a server handle, "No backup
\* found" when the id does not resolve, else "ok".
LoadOutcome(args) ==
    IF args.guild = "null" THEN "Invalid guild"
    ELSE IF args.byId /\ ~GetBackupDataFound(args.clientID, args.backup)
    THEN "No backup found"
    ELSE "ok"

\* The document load restores: read from the store, or the one given.
LoadBackupData(args) ==
    IF args.byId THEN GetBackupDataValue(args.clientID, args.backup)
    ELSE BackupDataOf(SourceGuild, {}, args.backup)

\* load clearing the server whatever the option says (a mutation of
\* ClearsFirst).
ClearsFirstAlways(args) == TRUE

\* Whether load clears the server first.
ClearsFirst(args) == args.clear = Undefined \/ args.clear = "true"

\* The document of the load in progress.
backupData == LoadBackupData(loadArgs)

\* load, up to its first remote calls: the checks, the resolution of the
\* backup, then clearGuild up to its first await or, without clearing, the
\* restore operations.
LoadCall(args) ==
    /\ loadPc = "idle"
    /\ loadArgs' = args
    /\ UNCHANGED <<files, now, ret, failed, guildRoles, target, created, chanDone>>
    /\ IF LoadOutcome(args) # "ok"
       THEN /\ loadPc' = "rejected"
            /\ loadErr' = LoadOutcome(args)
            /\ UNCHANGED <<requireCache, clearStatus, opStatus, inflight, attempted>>
       ELSE /\ requireCache' =
                  IF args.byId
                  THEN CacheAfterRequire(GetBackupDataFile(args.clientID, args.backup))
                  ELSE requireCache
            /\ UNCHANGED loadErr
            /\ IF ClearsFirst(args)
               THEN /\ loadPc' = "webhooks"
                    /\ clearStatus' = "pending"
                    /\ inflight' = ClearGuildFirstCalls
                    /\ attempted' = {d \in ClearGuildFirstCalls : d.kind \in DeletionKinds}
                    /\ UNCHANGED opStatus
               ELSE /\ loadPc' = IF \A op \in RestoreOps :
                                      RestoreFirstStatus(LoadBackupData(args))[op] = "resolved"
                                 THEN "resolved" ELSE "restoring"
                    /\ inflight' = RestoreFirstCalls(LoadBackupData(args))
                    /\ opStatus' = RestoreFirstStatus(LoadBackupData(args))
                    /\ UNCHANGED <<clearStatus, attempted>>

\* load after the promise of a restore operation changed: it rejects with the
\* first rejection of the Promise.all, and resolves when all seven resolved.
LoadPcAfter(status) ==
    IF loadPc # "restoring" THEN loadPc
    ELSE IF \E op \in RestoreOps : status[op] = "rejected" THEN "rejected"
    ELSE IF \A op \in RestoreOps : status[op] = "resolved" THEN "resolved"
    ELSE "restoring"

LoadErrAfter(status, e) ==
    IF loadPc = "restoring" /\ \E op \in RestoreOps : status[op] = "rejected"
    THEN LoadRejectReason(e) ELSE loadErr

\* clearGuild after the webhook listing: the deletion of each webhook, then
\* the ban listing.
FetchWebhooksResolves ==
    /\ loadPc = "webhooks"
    /\ Call("fetchWebhooks", "", "") \in inflight
    /\ inflight' = (inflight \ {Call("fetchWebhooks", "", "")})
                   \cup {Call("webhook.delete", w, "") : w \in TargetGuild.webhooks}
                   \cup {Call("bans.fetch", "", "")}
    /\ attempted' = attempted \cup {Call("webhook.delete", w, "") : w \in TargetGuild.webhooks}
    /\ loadPc' = "bans"
    /\ UNCHANGED <<storeVars, target, loadArgs, loadErr, clearStatus, opStatus, failed,
                   guildRoles, created, chanDone>>

\* The webhook listing rejects: the await throws, clearGuild rejects and load
\* rejects with the error.
FetchWebhooksRejects ==
    /\ loadPc = "webhooks"
    /\ Call("fetchWebhooks", "", "") \in inflight
    /\ inflight' = inflight \ {Call("fetchWebhooks", "", "")}
    /\ failed' = failed \cup {"fetchWebhooks"}
    /\ clearStatus' = "rejected"
    /\ loadPc' = "rejected"
    /\ loadErr' = LoadRejectReason("fetchWebhooks")
    /\ UNCHANGED <<storeVars, target, attempted, loadArgs, opStatus, guildRoles,
                   created, chanDone>>

\* clearGuild after the ban listing: the unbans and the settings resets are
\* issued, clearGuild returns, and load calls the seven restore operations.
BansFetchResolves ==
    /\ loadPc = "bans"
    /\ Call("bans.fetch", "", "") \in inflight
    /\ inflight' = (inflight \ {Call("bans.fetch", "", "")})
                   \cup {Call("unban", b, "") : b \in TargetGuild.bans}
                   \cup RestoreFirstCalls(backupData)
    /\ attempted' = attempted \cup {Call("unban", b, "") : b \in TargetGuild.bans}
    /\ clearStatus' = "resolved"
    /\ opStatus' = RestoreFirstStatus(backupData)
    /\ loadPc' = IF \A op \in RestoreOps : RestoreFirstStatus(backupData)[op] = "resolved"
                 THEN "resolved" ELSE "restoring"
    /\ UNCHANGED <<storeVars, target, loadArgs, loadErr, failed, guildRoles,
                   created, chanDone>>

BansFetchRejects ==
    /\ loadPc = "bans"
    /\ Call("bans.fetch", "", "") \in inflight
    /\ inflight' = inflight \ {Call("bans.fetch", "", "")}
    /\ failed' = failed \cup {"bans.fetch"}
    /\ clearStatus' = "rejected"
    /\ loadPc' = "rejected"
    /\ loadErr' = LoadRejectReason("bans.fetch")
    /\ UNCHANGED <<storeVars, target, attempted, loadArgs, opStatus, guildRoles,
                   created, chanDone>>

\* A deletion of clearGuild completes: a deleted role leaves the cache.
DeletionResolves(c) ==
    /\ c \in inflight
    /\ c.kind \in DeletionKinds
    /\ inflight' = inflight \ {c}
    /\ guildRoles' = IF c.kind = "role.delete"
                     THEN {r \in guildRoles : r.name # c.arg} ELSE guildRoles
    /\ UNCHANGED <<storeVars, target, attempted, loadPc, loadArgs, loadErr, clearStatus, opStatus,
                   failed, created, chanDone>>

\* A deletion of clearGuild rejects: its .catch(() => {}) swallows the error.
DeletionRejects(c) ==
    /\ c \in inflight
    /\ c.kind \in DeletionKinds
    /\ inflight' = inflight \ {c}
    /\ UNCHANGED <<storeVars, target, attempted, loadPc, loadArgs, loadErr, clearStatus, opStatus,
                   failed, guildRoles, created, chanDone>>

\* A settings reset of clearGuild rejects, at some time after clearGuild
\* issued it: swallowed when a .catch() follows the call, else nothing handles
\* the rejection.  (A reset that completes changes nothing the model holds.)
ResetRejects(c) ==
    /\ clearStatus = "resolved"
    /\ c \in IssuedResets(target.features)
    /\ failed' = failed \cup {IF c.caught THEN "reset.caught" ELSE "reset"}
    /\ UNCHANGED <<storeVars, target, attempted, loadPc, loadArgs, loadErr, clearStatus, opStatus,
                   inflight, guildRoles, created, chanDone>>

\* The rejections nothing handles: of a reset without .catch(), and of the
\* calls of loadCategory and loadChannel.
Unhandled == failed \cap (ChannelKinds \cup {"reset"})

\* The promise of a simple restore operation once call c has settled: resolved
\* when none of its calls is left.
SimpleStatusAfter(c, ok) ==
    [opStatus EXCEPT ![OpOf(c.kind)] =
        IF @ # "pending" THEN @
        ELSE IF ~ok THEN "rejected"
        ELSE IF \E d \in inflight \ {c} : OpOf(d.kind) = OpOf(c.kind) THEN "pending"
        ELSE "resolved"]

\* A call of loadConfig, loadRoles, loadAFK, loadEmojis, loadBans or
\* loadEmbedChannel completes; a created role enters the cache.
SimpleCallResolves(c) ==
    /\ c \in inflight
    /\ c.kind \in SimpleKinds
    /\ inflight' = inflight \ {c}
    /\ guildRoles' = IF c.kind = "roles.create"
                     THEN guildRoles \cup {NewRole(c.arg)} ELSE guildRoles
    /\ opStatus' = SimpleStatusAfter(c, TRUE)
    /\ loadPc' = LoadPcAfter(SimpleStatusAfter(c, TRUE))
    /\ UNCHANGED <<storeVars, target, attempted, loadArgs, loadErr, clearStatus, failed, created, chanDone>>

\* Such a call rejects: the operation rejects, and with it the Promise.all.
SimpleCallRejects(c) ==
    /\ c \in inflight
    /\ c.kind \in SimpleKinds
    /\ inflight' = inflight \ {c}
    /\ failed' = failed \cup {c.kind}
    /\ opStatus' = SimpleStatusAfter(c, FALSE)
    /\ loadPc' = LoadPcAfter(SimpleStatusAfter(c, FALSE))
    /\ loadErr' = LoadErrAfter(SimpleStatusAfter(c, FALSE), c.kind)
    /\ UNCHANGED <<storeVars, target, attempted, loadArgs, clearStatus, guildRoles,
                   created, chanDone>>

IsCategory(name) == name \in CategoryNames(backupData)

\* guild.channels.create of loadCategory or loadChannel completes: the
\* overwrites are resolved against the roles of the cache and set.
ChannelCreateResolves(c) ==
    /\ c \in inflight
    /\ c.kind = "channels.create"
    /\ LET rec == ChannelData(backupData, c.arg)
           parent == IF ~IsCategory(c.arg) /\ rec.parent \in DOMAIN created
                     THEN rec.parent ELSE Undefined
           new == [options |-> IF IsCategory(c.arg) THEN [type |-> "GUILD_CATEGORY"]
                               ELSE CreateOptionsOf(rec, target, parent),
                   overwrites |-> FinalPermissions(rec.permissions, guildRoles),
                   threads |-> {},
                   hung |-> FALSE]
       IN created' = [n \in DOMAIN created \cup {c.arg} |->
                        IF n = c.arg THEN new ELSE created[n]]
    /\ inflight' = (inflight \ {c}) \cup {Call("permissionOverwrites.set", c.arg, "")}
    /\ UNCHANGED <<storeVars, target, attempted, loadPc, loadArgs, loadErr, clearStatus, opStatus, failed, guildRoles, chanDone>>

\* A call of loadCategory or loadChannel rejects: the promise given to .then()
\* rejects and nothing handles it; the promise loadCategory or loadChannel
\* returned is never settled.
ChannelCallRejects(c) ==
    /\ c \in inflight
    /\ c.kind \in ChannelKinds
    /\ inflight' = inflight \ {c}
    /\ failed' = failed \cup {c.kind}
    /\ created' = IF c.arg \in DOMAIN created
                  THEN [created EXCEPT ![c.arg].hung = TRUE] ELSE created
    /\ UNCHANGED <<storeVars, target, attempted, loadPc, loadArgs, loadErr, clearStatus, opStatus, guildRoles, chanDone>>

\* loadChannels after the promise of a category or channel resolved.
ChannelsStatusAfter(done) ==
    [opStatus EXCEPT !["loadChannels"] =
        IF @ = "pending" /\ LoadChannelsResolved(backupData, done) THEN "resolved" ELSE @]

\* permissionOverwrites.set completes: a category resolves; a channel of type
\* GUILD_TEXT with threads creates them, and any other channel resolves.
OverwritesSetResolves(c) ==
    /\ c \in inflight
    /\ c.kind = "permissionOverwrites.set"
    /\ LET rec == ChannelData(backupData, c.arg)
           threads == IF ~IsCategory(c.arg) /\ rec.type = "GUILD_TEXT"
                      THEN {Call("threads.create", c.arg, t.name) :
                                t \in SeqToSet(rec.threads)}
                      ELSE {}
           done == IF threads = {} THEN chanDone \cup {c.arg} ELSE chanDone
       IN /\ inflight' = (inflight \ {c}) \cup threads
                         \cup (IF threads = {} THEN LoadChannelsNextCalls(backupData, done)
                               ELSE {})
          /\ chanDone' = done
          /\ opStatus' = ChannelsStatusAfter(done)
          /\ loadPc' = LoadPcAfter(ChannelsStatusAfter(done))
    /\ UNCHANGED <<storeVars, target, attempted, loadArgs, loadErr, clearStatus, failed, guildRoles, created>>

\* threads.create completes: loadChannel resolves when all of the channel's
\* thread creations completed.
ThreadCreateResolves(c) ==
    /\ c \in inflight
    /\ c.kind = "threads.create"
    /\ LET last == /\ ~created[c.arg].hung
                   /\ ~\E d \in inflight \ {c} : d.kind = "threads.create" /\ d.arg = c.arg
           done == IF last THEN chanDone \cup {c.arg} ELSE chanDone
       IN /\ inflight' = (inflight \ {c})
                         \cup (IF last THEN LoadChannelsNextCalls(backupData, done) ELSE {})
          /\ chanDone' = done
          /\ opStatus' = ChannelsStatusAfter(done)
          /\ loadPc' = LoadPcAfter(ChannelsStatusAfter(done))
    /\ created' = [created EXCEPT ![c.arg].threads = @ \cup {c.sub}]
    /\ UNCHANGED <<storeVars, target, attempted, loadArgs, loadErr, clearStatus, failed, guildRoles>>

\* load, as far as the store decides it: the ids the callers ask for.
LoadEntry(args) ==
    /\ ret' = [op |-> "load", clientID |-> args.clientID, backupID |-> args.backup,
               status |-> IF LoadOutcome(args) = "ok" THEN "pending" ELSE "rejected",
               value |-> IF LoadOutcome(args) = "ok" THEN LoadBackupData(args)
                         ELSE LoadOutcome(args)]
    /\ requireCache' =
          IF LoadOutcome(args) = "ok" /\ args.byId
          THEN CacheAfterRequire(GetBackupDataFile(args.clientID, args.backup))
          ELSE requireCache
    /\ UNCHANGED <<files, now, loadVars>>

\* What loadChannel and clearGuild read of the Guild handle besides its
\* caches.
TargetTraits(guild) == [features |-> guild.features, premiumTier |-> guild.premiumTier]

LoadIdle ==
    /\ loadPc = "idle"
    /\ loadArgs = NoLoadArgs
    /\ loadErr = Undefined
    /\ clearStatus = "none"
    /\ opStatus = [op \in RestoreOps |-> "none"]
    /\ inflight = {}
    /\ failed = {}
    /\ guildRoles = TargetGuild.roles
    /\ attempted = {}
    /\ created = << >>
    /\ chanDone = {}

NoRet == [op |-> "none", clientID |-> UndefinedStr, backupID |-> UndefinedStr,
          status |-> "none", value |-> Undefined]

StoreInit ==
    /\ files = << >>
    /\ requireCache = << >>
    /\ now = 0
    /\ ret = NoRet
    /\ LoadIdle
    /\ target = TargetTraits(TargetGuild)

CreateStep ==
    \E clientID \in ClientIDs, backupID \in BackupIDs \cup {UndefinedStr},
       jsonSave \in {"true", "false", Undefined},
       jsonBeautify \in {"true"} :
        Create(clientID, backupID, jsonSave, jsonBeautify)

FetchStep == \E clientID \in ClientIDs, backupID \in AskedIDs : Fetch(clientID, backupID)

RemoveStep == \E clientID \in ClientIDs, backupID \in AskedIDs : Remove(clientID, backupID)

ListStep == \E clientID \in ClientIDs : ListCall(clientID)

LoadEntryStep ==
    \E clientID \in ClientIDs, backupID \in AskedIDs :
        LoadEntry([guild |-> "given", byId |-> TRUE, backup |-> backupID,
                   clientID |-> clientID, clear |-> Undefined])

StoreNext == CreateStep \/ FetchStep \/ RemoveStep \/ ListStep \/ LoadEntryStep

StoreSpec == StoreInit /\ [][StoreNext]_vars

\* The restore pipeline: the store holds the snapshot "1A" of SourceGuild,
\* created by owner scope "A"; load is called once.
LoadInit ==
    /\ now = 0
    /\ files = (FileName(<<"1", "A">>) :>
                  Stringify(BackupDataOf(SourceGuild, {}, <<"1", "A">>), "true"))
    /\ requireCache = << >>
    /\ ret = NoRet
    /\ LoadIdle
    /\ target = TargetTraits(TargetGuild)

\* The capture: the store holds the snapshot "1A"; create is called once on
\* CapturedGuild, with any capture options and any capture step throwing.
CaptureInit == LoadInit

CaptureStep ==
    /\ ret = NoRet
    /\ \E backupID \in {UndefinedStr, <<"1", "A">>}, jsonSave \in {Undefined, "false"},
          capture \in CaptureInputs,
          throwAt \in SeqToSet(CaptureSteps) \cup {"none"} :
            CreateWith(CapturedGuild, <<"A">>, backupID, jsonSave, "true", capture, throwAt)

CaptureNext == CaptureStep

CaptureSpec == CaptureInit /\ [][CaptureNext]_vars

LoadCallStep == \E args \in LoadInputs : LoadCall(args)

DeletionResolvesStep == \E c \in inflight : DeletionResolves(c)

DeletionRejectsStep == \E c \in inflight : DeletionRejects(c)

ResetRejectsStep == \E c \in ResetCalls : ResetRejects(c)

SimpleCallResolvesStep == \E c \in inflight : SimpleCallResolves(c)

SimpleCallRejectsStep == \E c \in inflight : SimpleCallRejects(c)

ChannelCreateResolvesStep == \E c \in inflight : ChannelCreateResolves(c)

OverwritesSetResolvesStep == \E c \in inflight : OverwritesSetResolves(c)

ThreadCreateResolvesStep == \E c \in inflight : ThreadCreateResolves(c)

ChannelCallRejectsStep == \E c \in inflight : ChannelCallRejects(c)

LoadNext ==
    \/ LoadCallStep
    \/ FetchWebhooksResolves
    \/ FetchWebhooksRejects
    \/ BansFetchResolves
    \/ BansFetchRejects
    \/ DeletionResolvesStep
    \/ DeletionRejectsStep
    \/ ResetRejectsStep
    \/ SimpleCallResolvesStep
    \/ SimpleCallRejectsStep
    \/ ChannelCreateResolvesStep
    \/ OverwritesSetResolvesStep
    \/ ThreadCreateResolvesStep
    \/ ChannelCallRejectsStep

LoadSpec == LoadInit /\ [][LoadNext]_vars

\* The restore of one channel: the store holds the snapshot "1A" of a server
\* with one channel, the target server has any features and premium tier;
\* load is called once.
\* The arguments of that call: by id and without clearing (one of LoadInputs).
ChannelLoadArgs ==
    [guild |-> "given", byId |-> TRUE, backup |-> <<"1", "A">>, clientID |-> <<"A">>,
     clear |-> "false"]

ChannelInit ==
    /\ ChannelLoadArgs \in LoadInputs
    /\ now = 0
    /\ requireCache = << >>
    /\ ret = NoRet
    /\ LoadIdle
    /\ \E channel \in SourceChannels, traits \in TargetTraitsSet :
          /\ files = (FileName(<<"1", "A">>) :>
                        Stringify(BackupDataOf(ChannelGuild(channel), {}, <<"1", "A">>),
                                  "true"))
          /\ target = traits

ChannelLoadStep == LoadCall(ChannelLoadArgs)

ChannelNext ==
    \/ ChannelLoadStep
    \/ SimpleCallResolvesStep
    \/ SimpleCallRejectsStep
    \/ ChannelCreateResolvesStep
    \/ OverwritesSetResolvesStep
    \/ ThreadCreateResolvesStep
    \/ ChannelCallRejectsStep

ChannelSpec == ChannelInit /\ [][ChannelNext]_vars

\* ------------------------------------------------------- claims on the store

\* The ids of the stored snapshots.
StoredIDs == {Parse(files[f]).id : f \in DOMAIN files}

\* The documents the process has written and still holds, in the store or in
\* the module cache.
KnownDocs ==
    {Parse(files[f]) : f \in DOMAIN files}
        \cup {requireCache[f] : f \in DOMAIN requireCache}

\* Every create so far is known to have generated its id: each of them left a
\* document, stored or cached, whose id no caller supplied.
OnlyAutomaticCreates ==
    \A t \in 0..(now - 1) :
        \E doc \in KnownDocs : doc.createdTimestamp = t /\ doc.id \notin BackupIDs

\* C5: snapshot ids are unique per owner scope: after creates without a
\* caller-supplied backupID and removes, a create without a caller-supplied
\* backupID that saves its snapshot never writes it under the id of a
\* snapshot already in the store.
C5_AutoIdNeverOverwrites ==
    [][(/\ OnlyAutomaticCreates
        /\ ret'.op = "create"
        /\ now' = now + 1
        /\ ret'.backupID = UndefinedStr
        /\ ret'.saved)
       => FileName(ret'.value.id) \notin DOMAIN files]_vars

\* C6: last writer wins: a fetch that resolves returns the document most
\* recently written under the id, which is the content of its file.
C6_FetchReturnsLastWritten ==
    (ret.op = "fetch" /\ ret.status = "resolved")
        => /\ FileName(ret.backupID) \in DOMAIN files
           /\ ret.value.data = Parse(files[FileName(ret.backupID)])

\* C8: list(ownerScope) returns exactly the ids of the stored snapshots that
\* contain ownerScope as a substring, each in full.
C8_ListExactlyOwnedIds ==
    ret.op = "list"
        => ret.value = {id \in StoredIDs : Includes(id, ret.clientID)}

\* C9: remove with an id that is not in the store, or that does not contain
\* ownerScope, rejects with 'Backup not found' and leaves the stored snapshots
\* and their contents unchanged.
C9_RemoveNotFoundLeavesStore ==
    [][(/\ ret'.op = "remove"
        /\ \/ FileName(ret'.backupID) \notin DOMAIN files
           \/ ~Includes(ret'.backupID, ret'.clientID))
       => /\ ret'.status = "rejected"
          /\ ret'.value = "Backup not found"
          /\ files' = files]_vars

\* C9 witness: remove has rejected for an id of its owner that was stored,
\* read (it is in the module cache) and removed before.
C9_Witness ==
    /\ ret.op = "remove"
    /\ ret.status = "rejected"
    /\ Includes(ret.backupID, ret.clientID)
    /\ FileName(ret.backupID) \in DOMAIN requireCache
    /\ FileName(ret.backupID) \notin DOMAIN files
    /\ files # << >>

\* C10: fetch returns a document only if a snapshot is stored under exactly
\* that id and the id contains ownerScope; in every other case it rejects
\* with 'No backup found'. load given an id goes on with the snapshot under
\* the same condition and rejects with 'No backup found' otherwise.
C10_FetchOnlyOwnedStored ==
    /\ ret.op = "fetch"
        => /\ ret.status \in {"resolved", "rejected"}
           /\ ret.status = "resolved"
                <=> /\ FileName(ret.backupID) \in DOMAIN files
                    /\ Includes(ret.backupID, ret.clientID)
           /\ ret.status = "resolved"
                => ret.value.id = ret.backupID /\ ret.value.data.id = ret.backupID
           /\ ret.status = "rejected" => ret.value = "No backup found"
    /\ ret.op = "load"
        => /\ ret.status \in {"pending", "rejected"}
           /\ ret.status = "pending"
                <=> /\ FileName(ret.backupID) \in DOMAIN files
                    /\ Includes(ret.backupID, ret.clientID)
           /\ ret.status = "pending" => ret.value.id = ret.backupID
           /\ ret.status = "rejected" => ret.value = "No backup found"

\* C10 witness: a fetch of a stored snapshot by another owner scope was
\* rejected.
C10_Witness ==
    /\ ret.op = "fetch"
    /\ ret.status = "rejected"
    /\ FileName(ret.backupID) \in DOMAIN files
    /\ ~Includes(ret.backupID, ret.clientID)

\* ----------------------------------------------------- claims on the capture

\* C11: if a capture step of create throws (asset fetch, member, ban, role,
\* emoji or channel capture), create rejects with the error of that step and
\* the store is left unchanged: no file is written for the snapshot.
C11_ThrowLeavesStore ==
    [][(/\ ret'.op = "create"
        /\ ret'.thrown # "none" \/ ret'.status = "rejected")
       => /\ ret'.status = "rejected"
          /\ ret'.value = ret'.thrown
          /\ ret'.thrown \in ret'.called
          /\ files' = files]_vars

\* C11 witness: create has rejected with the error of the channel capture,
\* after the roles were captured, on a store that holds a snapshot.
C11_Witness ==
    /\ ret.op = "create"
    /\ ret.status = "rejected"
    /\ ret.value = "channels"
    /\ "roles" \in ret.called
    /\ files # << >>

\* What the capture function of a category returns for CapturedGuild, and
\* the empty collection of the category.
CaptureOfCategory(c) ==
    CASE c = "bans" -> GetBans(CapturedGuild)
      [] c = "roles" -> GetRoles(CapturedGuild)
      [] c = "emojis" -> GetEmojis(CapturedGuild)
      [] c = "channels" -> GetChannels(CapturedGuild)

EmptyCategory(c) ==
    IF c = "channels" THEN [categories |-> << >>, others |-> << >>] ELSE << >>

\* C14: for every exclusion set E, create with doNotBackup = E returns a
\* snapshot in which each category in E is the empty collection and each
\* category not in E holds exactly what its capture function returned; the
\* capture function of an excluded category is never called.
C14_ExclusionSetHonoured ==
    (ret.op = "create" /\ ret.status = "resolved")
        => /\ \A c \in Categories :
                IF c \in ret.doNotBackup
                THEN ret.value[c] = EmptyCategory(c) /\ c \notin ret.called
                ELSE ret.value[c] = CaptureOfCategory(c) /\ c \in ret.called
           /\ ret.saved => Parse(files[FileName(ret.value.id)]) = ret.value

\* C14 witness: create has resolved with the roles and the channels excluded
\* and the bans and the emojis captured.
C14_Witness ==
    /\ ret.op = "create"
    /\ ret.status = "resolved"
    /\ ret.doNotBackup = {"roles", "channels"}
    /\ ret.value.roles = << >>
    /\ ret.value.bans # << >>
    /\ ret.saved

\* ---------------------------------------------------- claims on the restore

RestoreInFlight == {c \in inflight : c.kind \in RestoreKinds}

DeletionsInFlight == {c \in inflight : c.kind \in DeletionKinds}

\* C1: with clearing, every deletion issued by clearGuild has settled before
\* any restore operation issues its first remote call: no deletion is in
\* flight while a call of a restore operation is.
C1_DeletionsSettledBeforeRestore ==
    (clearStatus # "none" /\ RestoreInFlight # {}) => DeletionsInFlight = {}

\* C2: every permission-overwrite record of a restored category or channel
\* whose roleName is the name of a role of the snapshot gets an overwrite for
\* that role: none is dropped because the role does not exist yet.
C2_OverwritesResolveToRoles ==
    \A n \in DOMAIN created :
        \A perm \in SeqToSet(ChannelData(backupData, n).permissions) :
            (\E r \in SeqToSet(backupData.roles) : r.name = perm.roleName)
                => \E o \in created[n].overwrites : o.id = NewRole(perm.roleName).id

\* C3: once a remote call of the restore operations has rejected and no call
\* of them is in flight any more, load has rejected with the error of such a
\* call: it does not stay pending.
C3_RejectionReachesLoad ==
    (failed \cap RestoreKinds # {} /\ RestoreInFlight = {})
        => loadPc = "rejected" /\ loadErr \in failed \cap RestoreKinds

\* C4: clearGuild never fails as a whole: its promise does not reject, no
\* rejection of its calls is left unhandled, and load never rejects with the
\* error of a call of the Clear Step.
C4_ClearGuildNeverFails ==
    /\ clearStatus # "rejected"
    /\ Unhandled \cap ClearKinds = {}
    /\ loadPc = "rejected" => loadErr \notin ClearKinds

\* Nothing of the restore or of the Clear Step has been called.
NothingIssued ==
    /\ inflight = {}
    /\ clearStatus = "none"
    /\ \A op \in RestoreOps : opStatus[op] = "none"
    /\ created = << >>
    /\ failed = {}

\* C7: load fails in one of three ways: with 'Invalid guild' when no server
\* handle is given, before any store read or remote call; with 'No backup
\* found' when the id does not resolve for the owner scope, before any
\* remote call; and, once the snapshot was resolved, with the error of a
\* remote call that rejected, never with 'No backup found'.
C7_LoadFailureOutcomes ==
    /\ (loadPc # "idle" /\ loadArgs.guild = "null")
          => /\ loadPc = "rejected"
             /\ loadErr = "Invalid guild"
             /\ NothingIssued
             /\ requireCache = << >>
    /\ (/\ loadPc # "idle"
        /\ loadArgs.guild = "given"
        /\ loadArgs.byId
        /\ ~GetBackupDataFound(loadArgs.clientID, loadArgs.backup))
          => /\ loadPc = "rejected"
             /\ loadErr = "No backup found"
             /\ NothingIssued
    /\ (/\ loadPc = "rejected"
        /\ loadArgs.guild = "given"
        /\ loadArgs.byId => GetBackupDataFound(loadArgs.clientID, loadArgs.backup))
          => /\ loadErr \in failed
             /\ loadErr \in ClearKinds \cup RestoreKinds

\* C7 witness: load, given an id that resolved, has rejected with the error
\* of a role creation that rejected.
C7_Witness ==
    /\ loadPc = "rejected"
    /\ loadArgs.byId
    /\ loadErr = "roles.create"
    /\ "roles.create" \in failed

\* The deletions claim C13 expects of clearGuild on TargetGuild: of every
\* channel, emoji, webhook and ban, and of the roles that are not managed, are
\* deletable and are not the default role.
ExpectedDeletions ==
    {Call("role.delete", r.name, "") :
        r \in {x \in TargetGuild.roles :
                 ~x.managed /\ x.editable /\ x.id # TargetGuild.id}}
    \cup {Call("channel.delete", ch, "") : ch \in TargetGuild.channels}
    \cup {Call("emoji.delete", e, "") : e \in TargetGuild.emojis}
    \cup {Call("webhook.delete", w, "") : w \in TargetGuild.webhooks}
    \cup {Call("unban", b, "") : b \in TargetGuild.bans}

\* C13: clearGuild attempts the deletion of every channel, emoji, webhook and
\* ban and of exactly the deletable roles, whatever deletion rejects, and
\* completes without raising: once its promise has settled it has resolved
\* and the deletions it issued are exactly the expected ones.
C13_ClearGuildSweepsAll ==
    /\ attempted \subseteq ExpectedDeletions
    /\ clearStatus \in {"resolved", "rejected"}
          => clearStatus = "resolved" /\ attempted = ExpectedDeletions

\* C15: load with clearGuildBeforeRestore = false never calls clearGuild and
\* issues no deletion and no settings reset; load that got its snapshot
\* calls clearGuild exactly when the option is true or undefined.
C15_NoClearWhenFalse ==
    /\ loadArgs.clear = "false"
          => /\ clearStatus = "none"
             /\ attempted = {}
             /\ \A d \in inflight : d.kind \notin ClearKinds
             /\ failed \cap ClearKinds = {}
             /\ {r \in TargetGuild.roles : r.name # "@everyone"} \subseteq guildRoles
    /\ (loadPc # "idle" /\ LoadOutcome(loadArgs) = "ok")
          => (clearStatus # "none" <=> loadArgs.clear \in {"true", Undefined})

\* C15 witness: load called with clearGuildBeforeRestore = false on the
\* non-empty server has created the role and a channel of the snapshot.
C15_Witness ==
    /\ loadArgs.clear = "false"
    /\ NewRole("mod") \in guildRoles
    /\ created # << >>
    /\ TargetGuild.channels # {}

\* -------------------------------------------- claims on loadChannel

\* The record of a restored channel.
RecordOf(n) == ChannelData(backupData, n)

\* C12: a voice channel captured by fetchVoiceChannelData with bitrate b and
\* restored by loadChannel into a server of premium tier t is created as a
\* voice channel of bitrate min(b, ceiling(t)).
C12_VoiceBitrateClamped ==
    \A n \in DOMAIN created :
        "bitrate" \in DOMAIN RecordOf(n)
            => /\ created[n].options.type = "GUILD_VOICE"
               /\ created[n].options.bitrate
                     = IF RecordOf(n).bitrate < MaxBitratePerTier[target.premiumTier]
                       THEN RecordOf(n).bitrate
                       ELSE MaxBitratePerTier[target.premiumTier]

\* C16: for every text-like channel record, plain text or announcement, whose
\* loadChannel promise has resolved, the overwrites are set and one thread
\* was created for each of its thread records.
C16_ThreadsOfTextLikeChannels ==
    \A n \in chanDone :
        (~IsCategory(n) /\ "threads" \in DOMAIN RecordOf(n))
            => /\ n \in DOMAIN created
               /\ ~\E d \in inflight :
                      d.arg = n /\ d.kind \in {"permissionOverwrites.set", "threads.create"}
               /\ created[n].threads = {t.name : t \in SeqToSet(RecordOf(n).threads)}

\* C17: loadChannel creates an announcement channel if and only if the record
\* is flagged isNews and the server has the NEWS feature; a record flagged
\* isNews restored into a server without it is created as a plain text
\* channel with the record's name, topic, nsfw flag and rate limit.
C17_NewsOnlyWithFeature ==
    \A n \in DOMAIN created :
        /\ created[n].options.type = "GUILD_NEWS"
              <=> /\ "isNews" \in DOMAIN RecordOf(n)
                  /\ RecordOf(n).isNews
                  /\ "NEWS" \in target.features
        /\ ("isNews" \in DOMAIN RecordOf(n) /\ RecordOf(n).isNews
                /\ "NEWS" \notin target.features)
              => /\ created[n].options.type = "GUILD_TEXT"
                 /\ RecordOf(n).name = n
                 /\ created[n].options.topic = RecordOf(n).topic
                 /\ created[n].options.nsfw = RecordOf(n).nsfw
                 /\ created[n].options.rateLimitPerUser = RecordOf(n).rateLimitPerUser

\* C17 witness: the announcement channel of the snapshot was created as a
\* plain text channel in a server without the NEWS feature.
C17_Witness ==
    /\ "news" \in DOMAIN created
    /\ RecordOf("news").isNews
    /\ "NEWS" \notin target.features
    /\ created["news"].options.type = "GUILD_TEXT"
    /\ created["news"].options.topic = "releases"

====
